---- MODULE Spec2Model ----
(***************************************************************************)
(* Model of the rust-axum service of galadrimteam/api-benchmarks:          *)
(* auth.rs (token codec, header extractor, gate), main.rs (route table),   *)
(* handlers.rs (request handlers) and error.rs (error to response).        *)
(*                                                                         *)
(* Text is modelled as a sequence of symbols.  A symbol is a character     *)
(* [ch |-> "B"], a byte that is not visible ASCII [byte |-> 200], or a     *)
(* signed token [alg, payload, sig] standing for its three base64url       *)
(* segments.  A UUID is a small integer; its string forms are records      *)
(* [fmt, id], so that to_string and parse_str are not the identity.        *)
(***************************************************************************)
EXTENDS Integers, Sequences, FiniteSets, TLC

(***************************************************************************)
(* Bounds                                                                  *)
(***************************************************************************)
T0 == 600            \* clock value (seconds) at startup
MaxTicks == 3        \* clock advances of the codec under test
MaxJumps == 1        \* clock advances of the service
NegLife == 1         \* configured jwt_expire_minutes go down to -NegLife
MaxLife == 1         \* largest configured jwt_expire_minutes
NReq == 2            \* requests in flight at the same time
MaxServed == 2       \* requests accepted in one behaviour
MaxUserId == 3       \* user ids 1..MaxUserId (1 and 2 exist at startup)
MaxPostId == 3       \* post ids 1..MaxPostId (1 and 2 exist at startup)

(***************************************************************************)
(* Results and errors (error.rs)                                           *)
(***************************************************************************)
Ok(v) == [ok |-> TRUE, val |-> v]
Err(e) == [ok |-> FALSE, err |-> e]

Unauthorized(m) == [kind |-> "Unauthorized", msg |-> m]
Forbidden(m) == [kind |-> "Forbidden", msg |-> m]
NotFound(m) == [kind |-> "NotFound", msg |-> m]
BadRequest(m) == [kind |-> "BadRequest", msg |-> m]
Conflict(m) == [kind |-> "Conflict", msg |-> m]
InternalServerError(m) == [kind |-> "InternalServerError", msg |-> m]
Database(m) == [kind |-> "Database", msg |-> m]

(***************************************************************************)
(* Text                                                                    *)
(***************************************************************************)
Ch(c) == [ch |-> c]
NonAscii == [byte |-> 200]

IsToken(s) == DOMAIN s = {"alg", "payload", "sig"}

\* http::HeaderValue::to_str: every byte is visible ASCII (a token's
\* base64url text is)
to_str_ok(v) == \A i \in 1..Len(v) : DOMAIN v[i] # {"byte"}

starts_with(v, p) == Len(v) >= Len(p) /\ SubSeq(v, 1, Len(p)) = p

BearerPrefix == <<Ch("B"), Ch("e"), Ch("a"), Ch("r"), Ch("e"), Ch("r"), Ch(" ")>>

\* HeaderMap::get: the value of the first entry of that name
HeaderGet(headers, name) ==
  LET idx == {i \in 1..Len(headers) : headers[i].name = name}
  IN IF idx = {} THEN [some |-> FALSE]
     ELSE [some |-> TRUE,
           v |-> headers[CHOOSE i \in idx : \A j \in idx : i <= j].value]

\* the extractor matching the scheme without regard to case
extract_token_any_case(headers) ==
  LET h == HeaderGet(headers, "authorization")
      lower == <<Ch("b"), Ch("e"), Ch("a"), Ch("r"), Ch("e"), Ch("r"), Ch(" ")>>
  IN IF ~h.some THEN Err(Unauthorized("Missing authorization header"))
     ELSE IF ~to_str_ok(h.v) THEN Err(Unauthorized("Invalid authorization header"))
     ELSE IF ~starts_with(h.v, BearerPrefix) /\ ~starts_with(h.v, lower)
          THEN Err(Unauthorized("Invalid authorization format"))
     ELSE Ok(SubSeq(h.v, 8, Len(h.v)))

extract_token_from_headers(headers) ==
  LET h == HeaderGet(headers, "authorization")
  IN IF ~h.some THEN Err(Unauthorized("Missing authorization header"))
     ELSE IF ~to_str_ok(h.v) THEN Err(Unauthorized("Invalid authorization header"))
     ELSE IF ~starts_with(h.v, BearerPrefix)
          THEN Err(Unauthorized("Invalid authorization format"))
     ELSE Ok(SubSeq(h.v, 8, Len(h.v)))

(***************************************************************************)
(* UUIDs                                                                   *)
(***************************************************************************)
\* Uuid::to_string: the lowercase hyphenated form
uuid_to_string(u) == [fmt |-> "hyphenated", id |-> u]

\* Uuid::parse_str accepts the hyphenated form in either case and the
\* simple form; anything else is an error
parse_str(s) ==
  IF s.fmt \in {"hyphenated", "upper", "simple"} THEN Ok(s.id) ELSE Err("parse")

(***************************************************************************)
(* Token codec (auth.rs, jsonwebtoken)                                     *)
(***************************************************************************)
\* HMAC of header and payload under a key
Sign(alg, payload, key) == [key |-> key, over |-> <<alg, payload>>]

\* jsonwebtoken::encode with Header::default()
encode(claims, key) ==
  [alg |-> "HS256", payload |-> claims, sig |-> Sign("HS256", claims, key)]

\* create_token adding the lifetime as seconds instead of minutes
create_token_seconds(user_id, is_admin, config, t) ==
  LET expiration == t + config.jwt_expire_minutes
      claims == [sub |-> [fmt |-> "hyphenated", id |-> user_id],
                 exp |-> expiration, is_admin |-> is_admin]
  IN Ok(<<[alg |-> "HS256", payload |-> claims,
           sig |-> [key |-> config.jwt_secret, over |-> <<"HS256", claims>>]]>>)

\* create_token writing the subject as the UUID's 128-bit number in decimal
create_token_decimal_sub(user_id, is_admin, config, t) ==
  LET expiration == t + config.jwt_expire_minutes * 60
      claims == [sub |-> [fmt |-> "decimal", id |-> user_id], exp |-> expiration,
                 is_admin |-> is_admin]
  IN Ok(<<[alg |-> "HS256", payload |-> claims,
           sig |-> [key |-> config.jwt_secret, over |-> <<"HS256", claims>>]]>>)

\* chrono timestamp `as usize`: a negative value wraps modulo 2^64; the
\* model keeps T0 large enough that the bounded lifetimes never go below 0
create_token(user_id, is_admin, config, t) ==
  LET expiration == t + config.jwt_expire_minutes * 60
      claims == [sub |-> uuid_to_string(user_id), exp |-> expiration,
                 is_admin |-> is_admin]
  IN Ok(<<encode(claims, config.jwt_secret)>>)

\* Validation::default() of jsonwebtoken 9 (the version that has the
\* validate_aud field set at auth.rs:83): algorithms = [HS256], leeway = 60,
\* required_spec_claims = {exp}
Leeway == 60

\* the validation with no leeway
DecodeCauseNoLeeway(token, secret, t) ==
  IF Len(token) # 1 \/ ~IsToken(token[1]) THEN "InvalidToken"
  ELSE LET tk == token[1]
       IN IF tk.alg # "HS256" THEN "InvalidAlgorithm"
          ELSE IF tk.sig # [key |-> secret, over |-> <<tk.alg, tk.payload>>]
               THEN "InvalidSignature"
          ELSE IF "exp" \notin DOMAIN tk.payload THEN "MissingRequiredClaim"
          ELSE IF tk.payload.exp < t THEN "ExpiredSignature"
          ELSE IF ~({"sub", "is_admin"} \subseteq DOMAIN tk.payload) THEN "Json"
          ELSE "ok"

\* jsonwebtoken::decode: the ErrorKind it ends with, or "ok"
DecodeCause(token, secret, t) ==
  IF Len(token) # 1 \/ ~IsToken(token[1]) THEN "InvalidToken"
  ELSE LET tk == token[1]
       IN IF tk.alg # "HS256" THEN "InvalidAlgorithm"
          ELSE IF tk.sig # Sign(tk.alg, tk.payload, secret) THEN "InvalidSignature"
          ELSE IF "exp" \notin DOMAIN tk.payload THEN "MissingRequiredClaim"
          ELSE IF tk.payload.exp < t - Leeway THEN "ExpiredSignature"
          ELSE IF ~({"sub", "is_admin"} \subseteq DOMAIN tk.payload) THEN "Json"
          ELSE "ok"

\* serde deserialisation into Claims keeps the three fields
ClaimsOf(payload) ==
  [sub |-> payload.sub, exp |-> payload.exp, is_admin |-> payload.is_admin]

\* decode_token telling an expired token from the other failures
decode_token_telling(token, secret, t) ==
  IF DecodeCause(token, secret, t) = "ok"
  THEN Ok(ClaimsOf(token[1].payload))
  ELSE IF DecodeCause(token, secret, t) = "ExpiredSignature"
  THEN Err(Unauthorized("Token expired"))
  ELSE Err(Unauthorized("Invalid token"))

decode_token(token, secret, t) ==
  IF DecodeCause(token, secret, t) = "ok"
  THEN Ok(ClaimsOf(token[1].payload))
  ELSE Err(Unauthorized("Invalid token"))


(***************************************************************************)
(* Responses (error.rs, handlers.rs)                                       *)
(***************************************************************************)
\* the status table with Conflict answered as a bad request
StatusOfConflictAs400(e) ==
  CASE e.kind = "Database" -> 500
    [] e.kind = "Unauthorized" -> 401
    [] e.kind = "Forbidden" -> 403
    [] e.kind = "NotFound" -> 404
    [] e.kind = "BadRequest" -> 400
    [] e.kind = "Conflict" -> 400
    [] e.kind = "InternalServerError" -> 500

StatusOf(e) ==
  CASE e.kind = "Database" -> 500
    [] e.kind = "Unauthorized" -> 401
    [] e.kind = "Forbidden" -> 403
    [] e.kind = "NotFound" -> 404
    [] e.kind = "BadRequest" -> 400
    [] e.kind = "Conflict" -> 409
    [] e.kind = "InternalServerError" -> 500

into_response(e) ==
  [status |-> StatusOf(e),
   body |-> [detail |-> IF e.kind = "Database" THEN "Internal server error"
                        ELSE e.msg]]

Success(status, body) == [status |-> status, body |-> body]

\* axum's rejection when Extension<Claims> is not in the request extensions
MissingExtension == [status |-> 500, body |-> [text |-> "Missing request extension"]]
\* axum's rejection when the Json or Query extractor cannot deserialise
Rejection == [status |-> 422, body |-> [text |-> "Failed to deserialize"]]

(***************************************************************************)
(* Route table (main.rs)                                                   *)
(***************************************************************************)
Route(m, p, h, g) == [method |-> m, path |-> p, handler |-> h, protected |-> g]

ProtectedRoutes ==
  { Route("GET", "/auth/me", "me", TRUE),
    Route("POST", "/users", "create_user", TRUE),
    Route("GET", "/users", "list_users", TRUE),
    Route("GET", "/users/{userId}", "get_user", TRUE),
    Route("PUT", "/users/{userId}", "update_user", TRUE),
    Route("DELETE", "/users/{userId}", "delete_user", TRUE),
    Route("POST", "/posts", "create_post", TRUE),
    Route("DELETE", "/posts/{post_id}", "delete_post", TRUE),
    Route("POST", "/posts/{post_id}/comments", "create_comment", TRUE),
    Route("POST", "/posts/{post_id}/like", "like_post", TRUE),
    Route("DELETE", "/posts/{post_id}/like", "unlike_post", TRUE) }

\* the router with delete_post registered outside the gated router
PublicRoutesWithDelete ==
  { Route("POST", "/auth/login", "login", FALSE),
    Route("GET", "/posts", "list_posts", FALSE),
    Route("DELETE", "/posts/{post_id}", "delete_post", FALSE),
    Route("GET", "/posts/{post_id}", "get_post", FALSE),
    Route("GET", "/posts/{post_id}/comments", "list_comments", FALSE) }

PublicRoutes ==
  { Route("POST", "/auth/login", "login", FALSE),
    Route("GET", "/posts", "list_posts", FALSE),
    Route("GET", "/posts/{post_id}", "get_post", FALSE),
    Route("GET", "/posts/{post_id}/comments", "list_comments", FALSE) }

Routes == PublicRoutes \cup ProtectedRoutes

\* the handlers whose signature has Extension(claims)
ClaimsHandlers ==
  {"me", "create_user", "list_users", "get_user", "update_user", "delete_user",
   "create_post", "delete_post", "create_comment", "like_post", "unlike_post"}

UserHandlers ==
  {"create_user", "list_users", "get_user", "update_user", "delete_user"}

(***************************************************************************)
(* State                                                                   *)
(***************************************************************************)
VARIABLES
  now,        \* the clock, integer seconds
  app_state,  \* AppState: [auth_config] (the pool is the tables below)
  mw_state,   \* the AuthConfig clone given to from_fn_with_state
  users,      \* table users: set of rows [id, email, password_hash, is_admin, bio]
  posts,      \* table posts: set of rows [id, author_id]
  comments,   \* table comments: set of rows [id, author_id, post_id]
  likes,      \* table likes: set of rows [user_id, post_id]
  next_id,    \* ids the database generates next: [user, post, comment]
  issued,     \* the tokens login has returned to clients
  served,     \* number of requests accepted so far
  req,        \* the requests in flight, one record per slot
  au          \* the codec under test: [tok, hdr, ext, dec]

dbvars == <<users, posts, comments, likes, next_id>>
cfgvars == <<app_state, mw_state>>
vars == <<now, app_state, mw_state, users, posts, comments, likes, next_id,
          issued, served, req, au>>

Slots == 1..NReq
UserIds == 1..MaxUserId
PostIds == 1..MaxPostId

NoClaims == [some |-> FALSE]
SomeClaims(c) == [some |-> TRUE, claims |-> c]
NoResp == [status |-> 0]
NoArg == [none |-> TRUE]

Idle ==
  [pc |-> "idle", route |-> Route("", "", "", FALSE), headers |-> <<>>,
   ext |-> NoClaims, invoked |-> FALSE, arg |-> NoArg, tmp |-> NoArg,
   out |-> NoResp, resp |-> NoResp]

\* bcrypt: hash_password and verify_password (auth.rs)
bcrypt_hash(password) == [bcrypt |-> password, cost |-> 8]
bcrypt_verify(password, hash) == hash.bcrypt = password

AuthConfigs ==
  [jwt_secret : {"dev-secret"}, jwt_expire_minutes : (0 - NegLife)..MaxLife]

InitUsers ==
  { [id |-> 1, email |-> "a@x", password_hash |-> bcrypt_hash("pa"),
     is_admin |-> TRUE, bio |-> "none"],
    [id |-> 2, email |-> "b@x", password_hash |-> bcrypt_hash("pb"),
     is_admin |-> FALSE, bio |-> "none"] }

\* the codec under test, before any call: its clock, its configuration, and
\* the last call of create_token, extract_token_from_headers and decode_token
AuIdle(c) == [now |-> T0, cfg |-> c, tok |-> NoArg, ext |-> NoArg, dec |-> NoArg]

InitDb ==
  /\ users = InitUsers
  /\ posts = {[id |-> 1, author_id |-> 2], [id |-> 2, author_id |-> 1]}
  /\ comments = {}
  /\ likes = {}
  /\ next_id = [user |-> 3, post |-> 3, comment |-> 1]

\* main: AuthConfig::default(), AppState and the router; the service is up and
\* each stored user has logged in once, at T0
InitWith(configs) ==
  /\ now = T0
  /\ \E c \in configs :
       /\ app_state = [auth_config |-> c]
       /\ mw_state = c
       /\ au = AuIdle(c)
  /\ InitDb
  /\ issued = {create_token(u.id, u.is_admin, app_state.auth_config, T0).val
                 : u \in InitUsers}
  /\ served = 0
  /\ req = [r \in Slots |-> Idle]

Init == InitWith({c \in AuthConfigs : c.jwt_expire_minutes = MaxLife})

(***************************************************************************)
(* Clock                                                                   *)
(***************************************************************************)
\* long enough for every token issued before it to be rejected after it
ExpiryJump == 60 * MaxLife + Leeway + 1

\* the values a read of the clock may return: not before the last value read
\* (chrono::Utc::now in create_token, get_current_timestamp in decode)
ClockRead ==
  {now} \cup {now + ExpiryJump : x \in {y \in {0} : (now - T0) \div ExpiryJump < MaxJumps}}

(***************************************************************************)
(* The database: what the statements of sql.rs do to the tables            *)
(***************************************************************************)
None == [some |-> FALSE]
Some(v) == [some |-> TRUE, v |-> v]

Lookup(rows) == IF rows = {} THEN None ELSE Some(CHOOSE x \in rows : TRUE)

\* SQL_LOGIN: id, password_hash, is_admin of the user with that email
SqlLogin(tbl, email) ==
  Lookup({[id |-> u.id, password_hash |-> u.password_hash, is_admin |-> u.is_admin]
            : u \in {x \in tbl : x.email = email}})

\* SQL_ME, SQL_GET_USER: the UserRow of that id
SqlGetUser(tbl, id) ==
  Lookup({[id |-> u.id, email |-> u.email, bio |-> u.bio]
            : u \in {x \in tbl : x.id = id}})

\* SQL_LIST_USERS
SqlListUsers(tbl) == {[id |-> u.id, email |-> u.email, bio |-> u.bio] : u \in tbl}

\* SQL_CREATE_USER: email is unique; is_admin defaults to false
SqlCreateUserOk(tbl, email) == \A u \in tbl : u.email # email
SqlCreateUser(tbl, id, email, hash) ==
  tbl \cup {[id |-> id, email |-> email, password_hash |-> hash,
             is_admin |-> FALSE, bio |-> "none"]}

\* SQL_UPDATE_USER: sets bio of that id
SqlUpdateUser(tbl, id, bio) ==
  {IF u.id = id THEN [u EXCEPT !.bio = bio] ELSE u : u \in tbl}

\* SQL_DELETE_USER, with the rows that reference the user
SqlDeleteUser(tbl, id) == {u \in tbl : u.id # id}

\* SQL_GET_POST_AUTHOR
SqlGetPostAuthor(tbl, id) == Lookup({p.author_id : p \in {x \in tbl : x.id = id}})

\* SQL_GET_POST
SqlGetPost(tbl, id) == Lookup({x \in tbl : x.id = id})

\* SQL_DELETE_POST
SqlDeletePost(tbl, id) == {p \in tbl : p.id # id}

\* SQL_LIST_COMMENTS
SqlListComments(tbl, post) == {c \in tbl : c.post_id = post}

\* SQL_LIKE_EXISTS / the primary key of likes
SqlLikeExists(tbl, user, post) == [user_id |-> user, post_id |-> post] \in tbl

\* SQL_DELETE_LIKE
SqlDeleteLike(tbl, user, post) == tbl \ {[user_id |-> user, post_id |-> post]}

\* models.rs: User::from(UserRow), Post::from(PostRow), Comment::from
UserFrom(row) == [id |-> uuid_to_string(row.id), email |-> row.email, bio |-> row.bio]
PostFrom(row, lk) ==
  [id |-> uuid_to_string(row.id), author_id |-> uuid_to_string(row.author_id),
   like_count |-> Cardinality({l \in lk : l.post_id = row.id})]
CommentFrom(row) ==
  [id |-> uuid_to_string(row.id), author_id |-> uuid_to_string(row.author_id),
   post_id |-> uuid_to_string(row.post_id)]

(***************************************************************************)
(* Request inputs                                                          *)
(***************************************************************************)
AuthHeader(v) == <<[name |-> "authorization", value |-> v]>>

LowerPrefix == <<Ch("b"), Ch("e"), Ch("a"), Ch("r"), Ch("e"), Ch("r"), Ch(" ")>>

\* a token an outsider can build: any claims, signed with a key of their own
Forged(t) ==
  <<encode([sub |-> uuid_to_string(2), exp |-> t + 3600, is_admin |-> TRUE],
           "attacker-key")>>

\* the header sets a client can send: none, or a scheme and a token it holds
HeaderChoices ==
  {<<>>} \cup {AuthHeader(BearerPrefix \o tk) : tk \in issued \cup {Forged(T0)}}
         \cup {AuthHeader(LowerPrefix \o (CHOOSE tk \in issued : TRUE))}

\* what a client sends to a public route: a token it holds, which nothing reads
PublicHeaderChoices ==
  {AuthHeader(BearerPrefix \o (CHOOSE tk \in issued : TRUE))}

PathStrings(ids) ==
  {[fmt |-> "hyphenated", id |-> i] : i \in ids}
    \cup {[fmt |-> "bad", id |-> 0]}

Malformed == [wf |-> FALSE]

LoginBodies ==
  {[wf |-> TRUE, email |-> e, password |-> "pa"] : e \in {"a@x", "b@x", "z@x"}}
    \cup {[wf |-> TRUE, email |-> "b@x", password |-> "pb"], Malformed}

CreateUserBodies ==
  {[wf |-> TRUE, email |-> e, password |-> "pa"] : e \in {"b@x", "c@x"}}
    \cup {Malformed}

UpdateUserBodies == {[wf |-> TRUE, bio |-> "new"], Malformed}
ContentBodies == {[wf |-> TRUE, content |-> "text"], Malformed}
Queries == {[wf |-> TRUE, limit |-> 20, offset |-> 0], Malformed}

(***************************************************************************)
(* Request steps                                                           *)
(***************************************************************************)
\* slot r becomes rec; a finished request leaves its slot at the next step
Flush(q) == IF req[q].pc = "done" THEN Idle ELSE req[q]
Set(r, rec) == req' = [q \in Slots |-> IF q = r THEN rec ELSE Flush(q)]

\* the gate turning every failure of the next stage into its own refusal
auth_middleware_return_masked(response) ==
  IF response.status >= 400
  THEN into_response(Unauthorized("Invalid token"))
  ELSE response

\* auth_middleware after next.run(request).await returned: Ok(response)
auth_middleware_return(response) == response

\* what the client receives when the next stage returns response: on a
\* protected route the response passes through the gate
Respond(r, response) ==
  IF req[r].route.protected THEN auth_middleware_return(response) ELSE response

\* the next stage returns before the handler body ran (an extractor's
\* rejection): out is the next stage's response, resp the client's
Finish(r, response) ==
  Set(r, [req[r] EXCEPT !.pc = "done", !.out = response,
                        !.resp = Respond(r, response)])

\* the handler body ran with input a and the next stage returns
Return(r, a, response) ==
  Set(r, [req[r] EXCEPT !.pc = "done", !.invoked = TRUE, !.arg = a,
                        !.out = response, !.resp = Respond(r, response)])

\* the handler body ran with input a and suspends at pc, holding t
Suspend(r, a, pc, t) ==
  Set(r, [req[r] EXCEPT !.pc = pc, !.invoked = TRUE, !.arg = a, !.tmp = t])

At(r, h) == req[r].pc = "handler" /\ req[r].route.handler = h

\* requests are accepted into the lowest free slot
Free(r) ==
  /\ req[r].pc \in {"idle", "done"}
  /\ \A q \in Slots : q < r => req[q].pc \notin {"idle", "done"}
  /\ served < MaxServed

\* axum::serve accepts a request and the router matches a public route: the
\* handler is the next stage
Receive(r) ==
  /\ Free(r)
  /\ served' = served + 1
  /\ \E rt \in Routes, h \in PublicHeaderChoices :
       /\ ~rt.protected
       /\ Set(r, [Idle EXCEPT !.pc = "handler", !.route = rt, !.headers = h])
  /\ UNCHANGED <<now, cfgvars, dbvars, issued, au>>

\* the gate attaching the claims of a token it could not verify
auth_middleware_unverified(r) ==
  /\ Free(r)
  /\ served' = served + 1
  /\ \E rt \in Routes, h \in HeaderChoices, t \in ClockRead :
       /\ rt.protected
       /\ now' = t
       /\ LET request == [Idle EXCEPT !.route = rt, !.headers = h]
              token == extract_token_from_headers(request.headers)
          IN IF ~token.ok
             THEN Set(r, [request EXCEPT !.pc = "done",
                                         !.resp = into_response(token.err)])
             ELSE LET claims == decode_token(token.val, mw_state.jwt_secret, t)
                  IN IF ~claims.ok
                     THEN IF Len(token.val) = 1 /\ IsToken(token.val[1])
                               /\ DOMAIN token.val[1].payload
                                    = {"sub", "exp", "is_admin"}
                          THEN Set(r, [request EXCEPT !.pc = "handler",
                                 !.ext = SomeClaims(token.val[1].payload)])
                          ELSE Set(r, [request EXCEPT !.pc = "done",
                                 !.resp = into_response(claims.err)])
                     ELSE Set(r, [request EXCEPT !.pc = "handler",
                                    !.ext = SomeClaims(claims.val)])
  /\ UNCHANGED <<cfgvars, dbvars, issued, au>>

\* the gate refusing a verified token whose subject is no longer stored
auth_middleware_stored_user(r) ==
  /\ Free(r)
  /\ served' = served + 1
  /\ \E rt \in Routes, h \in HeaderChoices, t \in ClockRead :
       /\ rt.protected
       /\ now' = t
       /\ LET request == [Idle EXCEPT !.route = rt, !.headers = h]
              token == extract_token_from_headers(request.headers)
          IN IF ~token.ok
             THEN Set(r, [request EXCEPT !.pc = "done",
                                         !.resp = into_response(token.err)])
             ELSE LET claims == decode_token(token.val, mw_state.jwt_secret, t)
                  IN IF ~claims.ok
                     THEN Set(r, [request EXCEPT !.pc = "done",
                                    !.resp = into_response(claims.err)])
                     ELSE IF \A u \in users : uuid_to_string(u.id) # claims.val.sub
                     THEN Set(r, [request EXCEPT !.pc = "done",
                            !.resp = into_response(Unauthorized("Invalid token"))])
                     ELSE Set(r, [request EXCEPT !.pc = "handler",
                                    !.ext = SomeClaims(claims.val)])
  /\ UNCHANGED <<cfgvars, dbvars, issued, au>>

\* axum::serve accepts a request and the router matches a protected route:
\* the layer runs auth_middleware, which has no await before next.run
auth_middleware(r) ==
  /\ Free(r)
  /\ served' = served + 1
  /\ \E rt \in Routes, h \in HeaderChoices, t \in ClockRead :
       /\ rt.protected
       /\ now' = t
       /\ LET request == [Idle EXCEPT !.route = rt, !.headers = h]
              token == extract_token_from_headers(request.headers)
          IN IF ~token.ok
             THEN Set(r, [request EXCEPT !.pc = "done",
                                         !.resp = into_response(token.err)])
             ELSE LET claims == decode_token(token.val, mw_state.jwt_secret, t)
                  IN IF ~claims.ok
                     THEN Set(r, [request EXCEPT !.pc = "done",
                                    !.resp = into_response(claims.err)])
                     ELSE Set(r, [request EXCEPT !.pc = "handler",
                                    !.ext = SomeClaims(claims.val)])
  /\ UNCHANGED <<cfgvars, dbvars, issued, au>>

(***************************************************************************)
(* Auth endpoints (handlers.rs)                                            *)
(***************************************************************************)
\* login telling a missing record from a wrong password
login_telling(r) ==
  /\ At(r, "login")
  /\ \E credentials \in LoginBodies :
       IF ~credentials.wf THEN Finish(r, Rejection)
       ELSE LET login_row == SqlLogin(users, credentials.email)
            IN IF login_row.some
               THEN Suspend(r, credentials, "login_verify", login_row.v)
               ELSE Return(r, credentials,
                           into_response(NotFound("User not found")))
  /\ UNCHANGED <<now, cfgvars, dbvars, issued, served, au>>

\* login up to the await of SQL_LOGIN
login(r) ==
  /\ At(r, "login")
  /\ \E credentials \in LoginBodies :
       IF ~credentials.wf THEN Finish(r, Rejection)
       ELSE LET login_row == SqlLogin(users, credentials.email)
            IN IF login_row.some
               THEN Suspend(r, credentials, "login_verify", login_row.v)
               ELSE Return(r, credentials,
                           into_response(Unauthorized("Invalid credentials")))
  /\ UNCHANGED <<now, cfgvars, dbvars, issued, served, au>>

\* login after verify_password returned
login_verify(r) ==
  /\ req[r].pc = "login_verify"
  /\ \E t \in ClockRead :
       LET row == req[r].tmp
           is_valid == bcrypt_verify(req[r].arg.password, row.password_hash)
           token == create_token(row.id, row.is_admin, app_state.auth_config, t)
       IN IF is_valid
          THEN /\ now' = t
               /\ issued' = issued \cup {token.val}
               /\ Return(r, req[r].arg, Success(200, [accessToken |-> token.val]))
          ELSE /\ UNCHANGED <<now, issued>>
               /\ Return(r, req[r].arg,
                         into_response(Unauthorized("Invalid credentials")))
  /\ UNCHANGED <<cfgvars, dbvars, served, au>>

me(r) ==
  /\ At(r, "me")
  /\ IF ~req[r].ext.some THEN Finish(r, MissingExtension)
     ELSE LET claims == req[r].ext.claims
              user_uuid == parse_str(claims.sub)
          IN IF ~user_uuid.ok
             THEN Return(r, NoArg, into_response(BadRequest("Invalid user ID")))
             ELSE LET user_row == SqlGetUser(users, user_uuid.val)
                  IN IF user_row.some
                     THEN Return(r, NoArg, Success(200, UserFrom(user_row.v)))
                     ELSE Return(r, NoArg,
                                 into_response(Unauthorized("User not found")))
  /\ UNCHANGED <<now, cfgvars, dbvars, issued, served, au>>

(***************************************************************************)
(* Users endpoints                                                         *)
(***************************************************************************)
AdminRequired == into_response(Forbidden("Admin access required"))

\* create_user up to the await of SQL_GET_USER
create_user(r) ==
  /\ At(r, "create_user")
  /\ \E user_data \in CreateUserBodies :
       IF ~req[r].ext.some
       THEN Finish(r, MissingExtension) /\ UNCHANGED dbvars
       ELSE IF ~user_data.wf THEN Finish(r, Rejection) /\ UNCHANGED dbvars
       ELSE IF ~req[r].ext.claims.is_admin
       THEN Return(r, user_data, AdminRequired) /\ UNCHANGED dbvars
       ELSE IF ~SqlCreateUserOk(users, user_data.email)
       THEN /\ Return(r, user_data,
                      into_response(BadRequest("Failed to create user")))
            /\ UNCHANGED dbvars
       ELSE /\ next_id.user <= MaxUserId
            /\ users' = SqlCreateUser(users, next_id.user, user_data.email,
                                      bcrypt_hash(user_data.password))
            /\ next_id' = [next_id EXCEPT !.user = @ + 1]
            /\ Suspend(r, user_data, "create_user_get", next_id.user)
            /\ UNCHANGED <<posts, comments, likes>>
  /\ UNCHANGED <<now, cfgvars, issued, served, au>>

\* create_user after the insert: fetch_one(SQL_GET_USER)
create_user_get(r) ==
  /\ req[r].pc = "create_user_get"
  /\ LET user_row == SqlGetUser(users, req[r].tmp)
     IN IF user_row.some
        THEN Return(r, req[r].arg, Success(201, UserFrom(user_row.v)))
        ELSE Return(r, req[r].arg, into_response(Database("RowNotFound")))
  /\ UNCHANGED <<now, cfgvars, dbvars, issued, served, au>>

list_users(r) ==
  /\ At(r, "list_users")
  /\ \E pagination \in Queries :
       IF ~req[r].ext.some THEN Finish(r, MissingExtension)
       ELSE IF ~pagination.wf THEN Finish(r, Rejection)
       ELSE IF ~req[r].ext.claims.is_admin
       THEN Return(r, pagination, AdminRequired)
       ELSE Return(r, pagination,
                   Success(200, {UserFrom(u) : u \in SqlListUsers(users)}))
  /\ UNCHANGED <<now, cfgvars, dbvars, issued, served, au>>

\* get_user letting a caller who is not admin read its own record
get_user_or_self(r) ==
  /\ At(r, "get_user")
  /\ \E target_user_id \in PathStrings(UserIds) :
       IF ~req[r].ext.some THEN Finish(r, MissingExtension)
       ELSE IF ~req[r].ext.claims.is_admin
               /\ req[r].ext.claims.sub # target_user_id
       THEN Return(r, target_user_id, AdminRequired)
       ELSE LET target_uuid == parse_str(target_user_id)
            IN IF ~target_uuid.ok
               THEN Return(r, target_user_id,
                           into_response(BadRequest("Invalid user ID")))
               ELSE LET user_row == SqlGetUser(users, target_uuid.val)
                    IN IF user_row.some
                       THEN Return(r, target_user_id,
                                   Success(200, UserFrom(user_row.v)))
                       ELSE Return(r, target_user_id,
                                   into_response(NotFound("User not found")))
  /\ UNCHANGED <<now, cfgvars, dbvars, issued, served, au>>

get_user(r) ==
  /\ At(r, "get_user")
  /\ \E target_user_id \in PathStrings(UserIds) :
       IF ~req[r].ext.some THEN Finish(r, MissingExtension)
       ELSE IF ~req[r].ext.claims.is_admin
       THEN Return(r, target_user_id, AdminRequired)
       ELSE LET target_uuid == parse_str(target_user_id)
            IN IF ~target_uuid.ok
               THEN Return(r, target_user_id,
                           into_response(BadRequest("Invalid user ID")))
               ELSE LET user_row == SqlGetUser(users, target_uuid.val)
                    IN IF user_row.some
                       THEN Return(r, target_user_id,
                                   Success(200, UserFrom(user_row.v)))
                       ELSE Return(r, target_user_id,
                                   into_response(NotFound("User not found")))
  /\ UNCHANGED <<now, cfgvars, dbvars, issued, served, au>>

update_user(r) ==
  /\ At(r, "update_user")
  /\ \E target_user_id \in PathStrings(UserIds), update_data \in UpdateUserBodies :
       LET a == [path |-> target_user_id, body |-> update_data]
       IN IF ~req[r].ext.some
          THEN Finish(r, MissingExtension) /\ UNCHANGED users
          ELSE IF ~update_data.wf THEN Finish(r, Rejection) /\ UNCHANGED users
          ELSE IF ~req[r].ext.claims.is_admin
          THEN Return(r, a, AdminRequired) /\ UNCHANGED users
          ELSE LET target_uuid == parse_str(target_user_id)
               IN IF ~target_uuid.ok
                  THEN /\ Return(r, a, into_response(BadRequest("Invalid user ID")))
                       /\ UNCHANGED users
                  ELSE LET tbl == SqlUpdateUser(users, target_uuid.val,
                                                update_data.bio)
                           user_row == SqlGetUser(tbl, target_uuid.val)
                       IN /\ users' = tbl
                          /\ IF user_row.some
                             THEN Return(r, a, Success(200, UserFrom(user_row.v)))
                             ELSE Return(r, a,
                                    into_response(NotFound("User not found")))
  /\ UNCHANGED <<now, cfgvars, posts, comments, likes, next_id, issued, served, au>>

\* delete_user checking the role stored for the caller now
delete_user_stored_role(r) ==
  /\ At(r, "delete_user")
  /\ \E target_user_id \in PathStrings(UserIds) :
       IF ~req[r].ext.some
       THEN Finish(r, MissingExtension) /\ UNCHANGED dbvars
       ELSE IF \A u \in users :
                 uuid_to_string(u.id) = req[r].ext.claims.sub => ~u.is_admin
       THEN Return(r, target_user_id, AdminRequired) /\ UNCHANGED dbvars
       ELSE LET target_uuid == parse_str(target_user_id)
            IN IF ~target_uuid.ok
               THEN /\ Return(r, target_user_id,
                              into_response(BadRequest("Invalid user ID")))
                    /\ UNCHANGED dbvars
               ELSE LET gone == {p.id : p \in {x \in posts :
                                                 x.author_id = target_uuid.val}}
                    IN /\ users' = SqlDeleteUser(users, target_uuid.val)
                       /\ posts' = {p \in posts : p.id \notin gone}
                       /\ comments' = {c \in comments :
                                         /\ c.author_id # target_uuid.val
                                         /\ c.post_id \notin gone}
                       /\ likes' = {l \in likes :
                                      /\ l.user_id # target_uuid.val
                                      /\ l.post_id \notin gone}
                       /\ UNCHANGED next_id
                       /\ IF users' = users
                          THEN Return(r, target_user_id,
                                      into_response(NotFound("User not found")))
                          ELSE Return(r, target_user_id, Success(204, NoArg))
  /\ UNCHANGED <<now, cfgvars, issued, served, au>>

delete_user(r) ==
  /\ At(r, "delete_user")
  /\ \E target_user_id \in PathStrings(UserIds) :
       IF ~req[r].ext.some
       THEN Finish(r, MissingExtension) /\ UNCHANGED dbvars
       ELSE IF ~req[r].ext.claims.is_admin
       THEN Return(r, target_user_id, AdminRequired) /\ UNCHANGED dbvars
       ELSE LET target_uuid == parse_str(target_user_id)
            IN IF ~target_uuid.ok
               THEN /\ Return(r, target_user_id,
                              into_response(BadRequest("Invalid user ID")))
                    /\ UNCHANGED dbvars
               ELSE LET gone == {p.id : p \in {x \in posts :
                                                 x.author_id = target_uuid.val}}
                    IN /\ users' = SqlDeleteUser(users, target_uuid.val)
                       /\ posts' = {p \in posts : p.id \notin gone}
                       /\ comments' = {c \in comments :
                                         /\ c.author_id # target_uuid.val
                                         /\ c.post_id \notin gone}
                       /\ likes' = {l \in likes :
                                      /\ l.user_id # target_uuid.val
                                      /\ l.post_id \notin gone}
                       /\ UNCHANGED next_id
                       /\ IF users' = users
                          THEN Return(r, target_user_id,
                                      into_response(NotFound("User not found")))
                          ELSE Return(r, target_user_id, Success(204, NoArg))
  /\ UNCHANGED <<now, cfgvars, issued, served, au>>


(***************************************************************************)
(* Posts endpoints                                                         *)
(***************************************************************************)
InvalidUserId == into_response(BadRequest("Invalid user ID"))
InvalidPostId == into_response(BadRequest("Invalid post ID"))
PostNotFound == into_response(NotFound("Post not found"))

create_post(r) ==
  /\ At(r, "create_post")
  /\ \E post_data \in ContentBodies :
       IF ~req[r].ext.some
       THEN Finish(r, MissingExtension) /\ UNCHANGED <<posts, next_id>>
       ELSE IF ~post_data.wf
       THEN Finish(r, Rejection) /\ UNCHANGED <<posts, next_id>>
       ELSE LET user_uuid == parse_str(req[r].ext.claims.sub)
            IN IF ~user_uuid.ok
               THEN Return(r, post_data, InvalidUserId)
                    /\ UNCHANGED <<posts, next_id>>
               ELSE IF \A u \in users : u.id # user_uuid.val
               THEN /\ Return(r, post_data,
                              into_response(BadRequest("Database error: 23503")))
                    /\ UNCHANGED <<posts, next_id>>
               ELSE LET row == [id |-> next_id.post, author_id |-> user_uuid.val]
                    IN /\ next_id.post <= MaxPostId
                       /\ posts' = posts \cup {row}
                       /\ next_id' = [next_id EXCEPT !.post = @ + 1]
                       /\ Return(r, post_data, Success(201, PostFrom(row, {})))
  /\ UNCHANGED <<now, cfgvars, users, comments, likes, issued, served, au>>

list_posts(r) ==
  /\ At(r, "list_posts")
  /\ \E pagination \in Queries :
       IF ~pagination.wf THEN Finish(r, Rejection)
       ELSE Return(r, pagination,
                   Success(200, {PostFrom(p, likes) : p \in posts}))
  /\ UNCHANGED <<now, cfgvars, dbvars, issued, served, au>>

get_post(r) ==
  /\ At(r, "get_post")
  /\ \E post_id \in PathStrings(PostIds) :
       LET post_uuid == parse_str(post_id)
       IN IF ~post_uuid.ok THEN Return(r, post_id, InvalidPostId)
          ELSE LET post_row == SqlGetPost(posts, post_uuid.val)
               IN IF post_row.some
                  THEN Return(r, post_id,
                              Success(200, PostFrom(post_row.v, likes)))
                  ELSE Return(r, post_id, PostNotFound)
  /\ UNCHANGED <<now, cfgvars, dbvars, issued, served, au>>

\* delete_post without the comparison of author and caller
delete_post_any(r) ==
  /\ At(r, "delete_post")
  /\ \E post_id \in PathStrings(PostIds) :
       IF ~req[r].ext.some THEN Finish(r, MissingExtension)
       ELSE LET claims == req[r].ext.claims
                user_uuid == parse_str(claims.sub)
                post_uuid == parse_str(post_id)
            IN IF ~user_uuid.ok THEN Return(r, post_id, InvalidUserId)
               ELSE IF ~post_uuid.ok THEN Return(r, post_id, InvalidPostId)
               ELSE LET author_id == SqlGetPostAuthor(posts, post_uuid.val)
                    IN IF ~author_id.some THEN Return(r, post_id, PostNotFound)
                       ELSE IF FALSE
                       THEN Return(r, post_id, into_response(
                              Forbidden("You can only delete your own posts")))
                       ELSE Suspend(r, post_id, "delete_post_exec",
                                    [post_uuid |-> post_uuid.val,
                                     author_id |-> author_id.v])
  /\ UNCHANGED <<now, cfgvars, dbvars, issued, served, au>>

\* delete_post up to the await of SQL_DELETE_POST
delete_post(r) ==
  /\ At(r, "delete_post")
  /\ \E post_id \in PathStrings(PostIds) :
       IF ~req[r].ext.some THEN Finish(r, MissingExtension)
       ELSE LET claims == req[r].ext.claims
                user_uuid == parse_str(claims.sub)
                post_uuid == parse_str(post_id)
            IN IF ~user_uuid.ok THEN Return(r, post_id, InvalidUserId)
               ELSE IF ~post_uuid.ok THEN Return(r, post_id, InvalidPostId)
               ELSE LET author_id == SqlGetPostAuthor(posts, post_uuid.val)
                    IN IF ~author_id.some THEN Return(r, post_id, PostNotFound)
                       ELSE IF author_id.v # user_uuid.val /\ ~claims.is_admin
                       THEN Return(r, post_id, into_response(
                              Forbidden("You can only delete your own posts")))
                       ELSE Suspend(r, post_id, "delete_post_exec",
                                    [post_uuid |-> post_uuid.val,
                                     author_id |-> author_id.v])
  /\ UNCHANGED <<now, cfgvars, dbvars, issued, served, au>>

\* delete_post: SQL_DELETE_POST, with the rows that reference the post
delete_post_exec(r) ==
  /\ req[r].pc = "delete_post_exec"
  /\ LET post_uuid == req[r].tmp.post_uuid
     IN /\ posts' = SqlDeletePost(posts, post_uuid)
        /\ comments' = {c \in comments : c.post_id # post_uuid}
        /\ likes' = {l \in likes : l.post_id # post_uuid}
  /\ Return(r, req[r].arg, Success(204, NoArg))
  /\ UNCHANGED <<now, cfgvars, users, next_id, issued, served, au>>

(***************************************************************************)
(* Comments endpoints                                                      *)
(***************************************************************************)
create_comment(r) ==
  /\ At(r, "create_comment")
  /\ \E post_id \in PathStrings(PostIds), comment_data \in ContentBodies :
       LET a == [path |-> post_id, body |-> comment_data]
       IN IF ~req[r].ext.some
          THEN Finish(r, MissingExtension) /\ UNCHANGED <<comments, next_id>>
          ELSE IF ~comment_data.wf
          THEN Finish(r, Rejection) /\ UNCHANGED <<comments, next_id>>
          ELSE LET user_uuid == parse_str(req[r].ext.claims.sub)
                   post_uuid == parse_str(post_id)
               IN IF ~user_uuid.ok
                  THEN Return(r, a, InvalidUserId) /\ UNCHANGED <<comments, next_id>>
                  ELSE IF ~post_uuid.ok
                  THEN Return(r, a, InvalidPostId) /\ UNCHANGED <<comments, next_id>>
                  ELSE IF \/ \A u \in users : u.id # user_uuid.val
                          \/ \A p \in posts : p.id # post_uuid.val
                  THEN Return(r, a, PostNotFound) /\ UNCHANGED <<comments, next_id>>
                  ELSE LET row == [id |-> next_id.comment,
                                   author_id |-> user_uuid.val,
                                   post_id |-> post_uuid.val]
                       IN /\ comments' = comments \cup {row}
                          /\ next_id' = [next_id EXCEPT !.comment = @ + 1]
                          /\ Return(r, a, Success(201, CommentFrom(row)))
  /\ UNCHANGED <<now, cfgvars, users, posts, likes, issued, served, au>>

\* list_comments up to the await of SQL_LIST_COMMENTS
list_comments(r) ==
  /\ At(r, "list_comments")
  /\ \E post_id \in PathStrings(PostIds) :
       LET post_uuid == parse_str(post_id)
       IN IF ~post_uuid.ok THEN Return(r, post_id, InvalidPostId)
          ELSE IF ~SqlGetPost(posts, post_uuid.val).some
          THEN Return(r, post_id, PostNotFound)
          ELSE Suspend(r, post_id, "list_comments_fetch", post_uuid.val)
  /\ UNCHANGED <<now, cfgvars, dbvars, issued, served, au>>

list_comments_fetch(r) ==
  /\ req[r].pc = "list_comments_fetch"
  /\ Return(r, req[r].arg,
            Success(200, {CommentFrom(c) : c \in SqlListComments(comments, req[r].tmp)}))
  /\ UNCHANGED <<now, cfgvars, dbvars, issued, served, au>>

(***************************************************************************)
(* Likes endpoints                                                         *)
(***************************************************************************)
\* like_post answering No Content when the like is already stored
like_post_idempotent(r) ==
  /\ At(r, "like_post")
  /\ \E post_id \in PathStrings(PostIds) :
       IF ~req[r].ext.some THEN Finish(r, MissingExtension) /\ UNCHANGED likes
       ELSE LET user_uuid == parse_str(req[r].ext.claims.sub)
                post_uuid == parse_str(post_id)
            IN IF ~user_uuid.ok
               THEN Return(r, post_id, InvalidUserId) /\ UNCHANGED likes
               ELSE IF ~post_uuid.ok
               THEN Return(r, post_id, InvalidPostId) /\ UNCHANGED likes
               ELSE IF [user_id |-> user_uuid.val, post_id |-> post_uuid.val] \in likes
               THEN Return(r, post_id, Success(204, NoArg)) /\ UNCHANGED likes
               ELSE IF \/ \A u \in users : u.id # user_uuid.val
                       \/ \A p \in posts : p.id # post_uuid.val
               THEN Return(r, post_id, PostNotFound) /\ UNCHANGED likes
               ELSE /\ likes' = likes \cup {[user_id |-> user_uuid.val,
                                             post_id |-> post_uuid.val]}
                    /\ Return(r, post_id, Success(204, NoArg))
  /\ UNCHANGED <<now, cfgvars, users, posts, comments, next_id, issued, served, au>>

like_post(r) ==
  /\ At(r, "like_post")
  /\ \E post_id \in PathStrings(PostIds) :
       IF ~req[r].ext.some THEN Finish(r, MissingExtension) /\ UNCHANGED likes
       ELSE LET user_uuid == parse_str(req[r].ext.claims.sub)
                post_uuid == parse_str(post_id)
            IN IF ~user_uuid.ok
               THEN Return(r, post_id, InvalidUserId) /\ UNCHANGED likes
               ELSE IF ~post_uuid.ok
               THEN Return(r, post_id, InvalidPostId) /\ UNCHANGED likes
               ELSE IF SqlLikeExists(likes, user_uuid.val, post_uuid.val)
               THEN /\ Return(r, post_id,
                              into_response(Conflict("Post already liked")))
                    /\ UNCHANGED likes
               ELSE IF \/ \A u \in users : u.id # user_uuid.val
                       \/ \A p \in posts : p.id # post_uuid.val
               THEN Return(r, post_id, PostNotFound) /\ UNCHANGED likes
               ELSE /\ likes' = likes \cup {[user_id |-> user_uuid.val,
                                             post_id |-> post_uuid.val]}
                    /\ Return(r, post_id, Success(204, NoArg))
  /\ UNCHANGED <<now, cfgvars, users, posts, comments, next_id, issued, served, au>>

unlike_post(r) ==
  /\ At(r, "unlike_post")
  /\ \E post_id \in PathStrings(PostIds) :
       IF ~req[r].ext.some THEN Finish(r, MissingExtension) /\ UNCHANGED likes
       ELSE LET user_uuid == parse_str(req[r].ext.claims.sub)
                post_uuid == parse_str(post_id)
            IN IF ~user_uuid.ok
               THEN Return(r, post_id, InvalidUserId) /\ UNCHANGED likes
               ELSE IF ~post_uuid.ok
               THEN Return(r, post_id, InvalidPostId) /\ UNCHANGED likes
               ELSE /\ likes' = SqlDeleteLike(likes, user_uuid.val, post_uuid.val)
                    /\ IF likes' = likes
                       THEN Return(r, post_id,
                              into_response(NotFound("Post or like not found")))
                       ELSE Return(r, post_id, Success(204, NoArg))
  /\ UNCHANGED <<now, cfgvars, users, posts, comments, next_id, issued, served, au>>

(***************************************************************************)
(* Environment                                                             *)
(***************************************************************************)
\* an operator clears the is_admin column of a user directly in the database
RevokeAdmin ==
  /\ \E u \in users :
       /\ u.is_admin
       /\ users' = (users \ {u}) \cup {[u EXCEPT !.is_admin = FALSE]}
  /\ req' = [q \in Slots |-> Flush(q)]
  /\ UNCHANGED <<now, cfgvars, posts, comments, likes, next_id, issued, served, au>>

Step(r) ==
  \/ Receive(r) \/ auth_middleware(r)
  \/ login(r) \/ login_verify(r) \/ me(r)
  \/ create_user(r) \/ create_user_get(r) \/ list_users(r) \/ get_user(r)
  \/ update_user(r) \/ delete_user(r)
  \/ create_post(r) \/ list_posts(r) \/ get_post(r)
  \/ delete_post(r) \/ delete_post_exec(r)
  \/ create_comment(r) \/ list_comments(r) \/ list_comments_fetch(r)
  \/ like_post(r) \/ unlike_post(r)

Next == RevokeAdmin \/ \E r \in Slots : Step(r)

Spec == Init /\ [][Next]_vars

TypeOK ==
  /\ served \in 0..MaxServed
  /\ \A r \in Slots : req[r].pc \in
       {"idle", "handler", "login_verify", "create_user_get",
        "delete_post_exec", "list_comments_fetch", "done"}


(***************************************************************************)
(* The token codec and the header extractor on their own: auth.rs called   *)
(* with inputs drawn from bounded sets                                     *)
(***************************************************************************)
AuClockRead ==
  {au.now + d : d \in {e \in {0, 1, 60} :
     e = 0 \/ ((au.now - T0) % 60) + ((au.now - T0) \div 60) < MaxTicks}}

\* what a caller can make of a token tk it holds: the token, the token with
\* its payload changed under the old signature, tokens it signs itself with
\* key k (other algorithm, payloads that are not Claims), and text that is
\* no token
Variants(tk, k) ==
  LET p == tk[1].payload
  IN { tk,
       <<[tk[1] EXCEPT !.payload = [p EXCEPT !.is_admin = ~p.is_admin]]>>,
       <<[tk[1] EXCEPT !.payload = [p EXCEPT !.exp = p.exp + 120]]>>,
       <<[alg |-> "none", payload |-> p, sig |-> Sign("none", p, k)]>>,
       <<encode([sub |-> p.sub, exp |-> p.exp], k)>>,
       <<encode([sub |-> p.sub, is_admin |-> p.is_admin], k)>>,
       <<encode([sub |-> p.sub, exp |-> p.exp, is_admin |-> p.is_admin,
                 iat |-> p.exp], k)>>,
       tk \o tk, tk \o <<Ch(" ")>>, <<Ch(" ")>> \o tk,
       <<Ch("a"), Ch("b"), Ch("c"), Ch("1"), Ch("2"), Ch("3")>>, <<>> }

Secrets == {"dev-secret", "other-secret"}

AuPrefixes ==
  { BearerPrefix, LowerPrefix, SubSeq(BearerPrefix, 1, 6),
    BearerPrefix \o <<Ch(" ")>>, <<Ch(" ")>> \o BearerPrefix,
    <<Ch("B"), Ch("a"), Ch("s"), Ch("i"), Ch("c"), Ch(" ")>>, <<>> }

AuHeaders ==
  LET vals == {pre \o body : pre \in AuPrefixes,
                 body \in Variants(au.tok.res.val, au.cfg.jwt_secret)
                           \cup {<<NonAscii>>}}
  IN {<<>>}
       \cup {AuthHeader(v) : v \in vals}
       \cup {<<[name |-> "accept", value |-> v]>> : v \in {BearerPrefix}}
       \cup {AuthHeader(LowerPrefix) \o AuthHeader(v) : v \in {BearerPrefix}}

AuInit == InitWith(AuthConfigs)

\* create_token(user_id, is_admin, config)
AuCreate ==
  /\ au.tok = NoArg
  /\ \E id \in UserIds, adm \in BOOLEAN, t \in AuClockRead :
       au' = [au EXCEPT !.now = t,
                        !.tok = [id |-> id, is_admin |-> adm, at |-> t,
                                 res |-> create_token(id, adm, au.cfg, t)],
                        !.ext = NoArg, !.dec = NoArg]
  /\ UNCHANGED <<now, cfgvars, dbvars, issued, served, req>>

\* extract_token_from_headers(headers)
AuExtract ==
  /\ au.tok # NoArg /\ au.ext = NoArg /\ au.dec = NoArg
  /\ \E h \in AuHeaders :
       au' = [au EXCEPT !.ext = [headers |-> h,
                                 res |-> extract_token_from_headers(h)],
                        !.dec = NoArg]
  /\ UNCHANGED <<now, cfgvars, dbvars, issued, served, req>>

\* decode_token(token, secret), on the token just created or just extracted
AuDecode ==
  /\ au.tok # NoArg /\ au.dec = NoArg
  /\ \E secret \in Secrets, t \in AuClockRead,
        token \in {au.tok.res.val}
                    \cup {au.ext.res.val : x \in {y \in {au.ext} :
                                              y # NoArg /\ y.res.ok}} :
       au' = [au EXCEPT !.now = t,
                        !.dec = [token |-> token, secret |-> secret, at |-> t,
                                 res |-> decode_token(token, secret, t)]]
  /\ UNCHANGED <<now, cfgvars, dbvars, issued, served, req>>

AuNext == AuCreate \/ AuExtract \/ AuDecode

SpecAuth == AuInit /\ [][AuNext]_vars


(***************************************************************************)
(* Claims about the codec and the extractor, checked under SpecAuth        *)
(***************************************************************************)
\* the token of the last decode_token call is well formed, signed with the
\* secret it is verified with, and its payload has the Claims shape
DecodedWellFormed ==
  /\ au.dec # NoArg
  /\ Len(au.dec.token) = 1
  /\ IsToken(au.dec.token[1])
  /\ au.dec.token[1].alg = "HS256"
  /\ au.dec.token[1].sig.key = au.dec.secret
  /\ au.dec.token[1].sig.over = <<"HS256", au.dec.token[1].payload>>
  /\ {"sub", "exp", "is_admin"} \subseteq DOMAIN au.dec.token[1].payload

\* C2 as stated: a correctly signed, well-formed token is accepted exactly
\* when exp > now; with exp <= now decode_token fails with Unauthorized.
C2_StrictExpiry ==
  DecodedWellFormed =>
    IF au.dec.token[1].payload.exp > au.dec.at
    THEN au.dec.res.ok
    ELSE ~au.dec.res.ok /\ au.dec.res.err.kind = "Unauthorized"

\* C2 amended: a correctly signed, well-formed token is accepted exactly when
\* exp >= now - 60 (the validation's default leeway); with exp < now - 60
\* decode_token fails with Unauthorized.
C2_LeewayExpiry ==
  DecodedWellFormed =>
    IF au.dec.token[1].payload.exp >= au.dec.at - 60
    THEN au.dec.res.ok
    ELSE ~au.dec.res.ok /\ au.dec.res.err.kind = "Unauthorized"

\* a token created with a zero or negative lifetime is accepted although its
\* exp is not after the time of the decode
C2_Witness ==
  /\ DecodedWellFormed
  /\ au.cfg.jwt_expire_minutes <= 0
  /\ au.dec.token = au.tok.res.val
  /\ au.dec.token[1].payload.exp <= au.dec.at
  /\ au.dec.res.ok

\* the four rejection causes of C3, stated on the decode_token call
C3_Malformed == Len(au.dec.token) # 1 \/ ~IsToken(au.dec.token[1])
C3_BadSignature ==
  /\ ~C3_Malformed
  /\ \/ au.dec.token[1].sig.key # au.dec.secret
     \/ au.dec.token[1].sig.over # <<au.dec.token[1].alg, au.dec.token[1].payload>>
C3_Expired ==
  /\ ~C3_Malformed
  /\ "exp" \in DOMAIN au.dec.token[1].payload
  /\ au.dec.token[1].payload.exp < au.dec.at - Leeway
C3_BadShape ==
  /\ ~C3_Malformed
  /\ ~({"sub", "exp", "is_admin"} \subseteq DOMAIN au.dec.token[1].payload)

\* C3: decode_token fails with the one error Unauthorized("Invalid token")
\* for a malformed envelope, a signature mismatch, an expired timestamp and
\* a payload that is not Claims; no failure carries any other error.
C3_OneError ==
  au.dec # NoArg =>
    /\ (C3_Malformed \/ C3_BadSignature \/ C3_Expired \/ C3_BadShape)
         => au.dec.res = Err([kind |-> "Unauthorized", msg |-> "Invalid token"])
    /\ ~au.dec.res.ok
         => au.dec.res = Err([kind |-> "Unauthorized", msg |-> "Invalid token"])

\* a token verified with another secret than it was issued with, after it
\* has also expired, is rejected
C3_Witness ==
  /\ au.dec # NoArg
  /\ au.dec.token = au.tok.res.val
  /\ au.dec.secret # au.cfg.jwt_secret
  /\ C3_BadSignature /\ C3_Expired
  /\ ~au.dec.res.ok

\* the last decode_token call is on the token create_token just returned,
\* with the secret of the configuration, within the same second or the next
C4_Immediate ==
  /\ au.tok # NoArg /\ au.dec # NoArg
  /\ au.dec.token = au.tok.res.val
  /\ au.dec.secret = au.cfg.jwt_secret
  /\ au.dec.at - au.tok.at <= 1
  /\ au.cfg.jwt_expire_minutes > 0

C5_HasBearer(v) ==
  /\ \A i \in 1..Len(v) : DOMAIN v[i] # {"byte"}
  /\ Len(v) >= 7
  /\ v[1] = Ch("B") /\ v[2] = Ch("e") /\ v[3] = Ch("a") /\ v[4] = Ch("r")
  /\ v[5] = Ch("e") /\ v[6] = Ch("r") /\ v[7] = Ch(" ")

Abc123 == <<Ch("a"), Ch("b"), Ch("c"), Ch("1"), Ch("2"), Ch("3")>>

\* C5: extract_token_from_headers fails with Unauthorized when the
\* authorization header is absent, is not text or does not start with
\* "Bearer "; otherwise it returns exactly what follows the 7-character
\* prefix ("Bearer abc123" gives "abc123", "bearer abc123" and "Bearer" fail).
C5_Extract ==
  au.ext # NoArg =>
    LET names == {au.ext.headers[i].name : i \in 1..Len(au.ext.headers)}
        h == HeaderGet(au.ext.headers, "authorization")
        r == au.ext.res
    IN /\ ("authorization" \notin names) => ~r.ok /\ r.err.kind = "Unauthorized"
       /\ ("authorization" \in names) =>
            IF C5_HasBearer(h.v)
            THEN r.ok /\ BearerPrefix \o r.val = h.v
            ELSE ~r.ok /\ r.err.kind = "Unauthorized"
       /\ (h.some /\ h.v = BearerPrefix \o Abc123) => r = Ok(Abc123)
       /\ (h.some /\ h.v \in {LowerPrefix \o Abc123, SubSeq(BearerPrefix, 1, 6)})
            => ~r.ok

\* "Bearer " followed by a space and a token is returned with the space
C5_Witness ==
  /\ au.ext # NoArg
  /\ au.ext.res.ok
  /\ Len(au.ext.res.val) = 2
  /\ au.ext.res.val[1] = Ch(" ")
  /\ au.ext.res.val[2] = au.tok.res.val[1]


(***************************************************************************)
(* Claims about the service, checked under Spec                            *)
(***************************************************************************)
\* this step accepts a request into slot r
Accepts(r) == Free(r) /\ served' = served + 1

\* this step is a step of the request in slot r, which is at pc
StepAt(r, pc) == req[r].pc = pc /\ req'[r] # req[r]

C1_GateStep ==
  \A r \in Slots :
    (Accepts(r) /\ req'[r].route \in ProtectedRoutes) =>
      LET token == extract_token_from_headers(req'[r].headers)
      IN IF ~token.ok
         THEN /\ req'[r].pc = "done" /\ ~req'[r].invoked
              /\ req'[r].ext = NoClaims
              /\ req'[r].resp = into_response(token.err)
              /\ token.err.kind = "Unauthorized"
         ELSE LET claims == decode_token(token.val, mw_state.jwt_secret, now')
              IN IF ~claims.ok
                 THEN /\ req'[r].pc = "done" /\ ~req'[r].invoked
                      /\ req'[r].ext = NoClaims
                      /\ req'[r].resp = into_response(claims.err)
                      /\ claims.err.kind = "Unauthorized"
                 ELSE /\ req'[r].pc = "handler" /\ ~req'[r].invoked
                      /\ req'[r].ext = SomeClaims(claims.val)

C1_Keep ==
  \A r \in Slots :
    (req[r].pc \notin {"idle", "done"}) =>
      /\ req'[r].ext = req[r].ext
      /\ req'[r].headers = req[r].headers
      /\ req'[r].route = req[r].route

C1_Invoked ==
  \A r \in Slots :
    (req[r].route \in ProtectedRoutes /\ (req[r].invoked \/ req[r].pc = "handler")) =>
      /\ req[r].ext.some
      /\ extract_token_from_headers(req[r].headers).ok
      /\ \E t \in T0..now :
           decode_token(extract_token_from_headers(req[r].headers).val,
                        mw_state.jwt_secret, t) = Ok(req[r].ext.claims)

\* C1: on a protected route the handler is invoked only after
\* extract_token_from_headers and decode_token succeeded for that request, the
\* Claims it reads are the ones decode_token returned, and if either step fails
\* the handler is never invoked and the request ends with that step's
\* Unauthorized error.
C1_Gate == [](C1_Invoked) /\ [][C1_GateStep /\ C1_Keep]_vars

\* a protected handler ran and answered 200 with the claims of its token
C1_Witness ==
  \E r \in Slots :
    /\ req[r].pc = "done" /\ req[r].invoked
    /\ req[r].route \in ProtectedRoutes
    /\ req[r].ext.some
    /\ req[r].resp.status = 200

C6_Step ==
  \A r \in Slots :
    /\ (StepAt(r, "handler") /\ req[r].route.handler \in UserHandlers
          /\ req[r].ext.some) =>
         IF ~req[r].ext.claims.is_admin
         THEN /\ users' = users
              /\ req'[r].pc = "done"
              /\ req'[r].invoked =>
                   req'[r].resp = [status |-> 403,
                                   body |-> [detail |-> "Admin access required"]]
         ELSE req'[r].resp.status # 403
    /\ StepAt(r, "create_user_get") =>
         req[r].ext.claims.is_admin /\ req'[r].resp.status # 403

\* C6: create_user, list_users, get_user, update_user and delete_user fail
\* with Forbidden whenever claims.is_admin is false, whatever the subject and
\* the target, and then no user record is created, changed or deleted; with
\* is_admin true they never answer Forbidden.
C6_AdminOnly == [][C6_Step]_vars

\* a caller who is not admin asked to delete its own user record: Forbidden,
\* and the record is still stored
C6_Witness ==
  \E r \in Slots :
    /\ req[r].pc = "done" /\ req[r].invoked
    /\ req[r].route.handler = "delete_user"
    /\ ~req[r].ext.claims.is_admin
    /\ req[r].arg = req[r].ext.claims.sub
    /\ req[r].resp.status = 403
    /\ \E u \in users : [fmt |-> "hyphenated", id |-> u.id] = req[r].arg

C7_Step ==
  \A r \in Slots :
    /\ (StepAt(r, "handler") /\ req[r].route.handler = "delete_post"
          /\ req[r].ext.some) =>
         /\ posts' = posts
         /\ \A p \in posts :
              (parse_str(req'[r].arg) = Ok(p.id)) =>
                IF \/ [fmt |-> "hyphenated", id |-> p.author_id]
                        = req[r].ext.claims.sub
                   \/ req[r].ext.claims.is_admin
                THEN /\ req'[r].pc = "delete_post_exec"
                     /\ req'[r].tmp = [post_uuid |-> p.id,
                                       author_id |-> p.author_id]
                ELSE /\ req'[r].pc = "done"
                     /\ req'[r].resp.status = 403
    /\ StepAt(r, "delete_post_exec") =>
         /\ \/ [fmt |-> "hyphenated", id |-> req[r].tmp.author_id]
                 = req[r].ext.claims.sub
            \/ req[r].ext.claims.is_admin
         /\ posts' = {p \in posts : p.id # req[r].tmp.post_uuid}
         /\ req'[r].pc = "done"
         /\ req'[r].resp = [status |-> 204, body |-> NoArg]

\* C7: delete_post removes an existing post only when the author id it read
\* from storage in this request equals claims.sub or claims.is_admin is true;
\* any other caller gets Forbidden and the post stays; the owner or an admin
\* gets No Content.
C7_OwnerOrAdmin == [][C7_Step]_vars

\* a caller who is not admin deleted its own post
C7_Witness ==
  \E r \in Slots :
    /\ req[r].pc = "done" /\ req[r].invoked
    /\ req[r].route.handler = "delete_post"
    /\ req[r].tmp # NoArg
    /\ ~req[r].ext.claims.is_admin
    /\ req[r].resp.status = 204
    /\ [fmt |-> "hyphenated", id |-> req[r].tmp.author_id] = req[r].ext.claims.sub
    /\ \A p \in posts : p.id # req[r].tmp.post_uuid

\* C8: a failed login ends with the same response whether the email has no
\* credential record or the password does not match: Unauthorized with one
\* message.
C8_LoginFailure ==
  \A r \in Slots :
    (req[r].pc = "done" /\ req[r].route.handler = "login" /\ req[r].invoked
       /\ req[r].resp.status # 200) =>
      /\ req[r].resp = [status |-> 401, body |-> [detail |-> "Invalid credentials"]]
      /\ \/ req[r].tmp = NoArg
         \/ req[r].tmp.password_hash.bcrypt # req[r].arg.password

\* a login for an email that has no credential record has failed
C8_Witness ==
  \E r \in Slots :
    /\ req[r].pc = "done" /\ req[r].route.handler = "login" /\ req[r].invoked
    /\ req[r].tmp = NoArg
    /\ req[r].resp.status = 401

\* C9: login, list_posts, get_post and list_comments run without the gate and
\* without Claims; every handler that reads Claims is registered only on the
\* gated router, so none is invoked without auth_middleware having run.
C9_Routes ==
  /\ \A rt \in Routes :
       /\ rt.handler \in ClaimsHandlers <=> rt \in ProtectedRoutes
       /\ rt.handler \in {"login", "list_posts", "get_post", "list_comments"}
            <=> rt \in PublicRoutes
       /\ rt.protected <=> rt \in ProtectedRoutes
  /\ \A r \in Slots :
       (req[r].pc # "idle") =>
         /\ req[r].route \in PublicRoutes => req[r].ext = NoClaims
         /\ req[r].route.handler \in ClaimsHandlers =>
              /\ req[r].route.protected
              /\ (req[r].pc # "done" \/ req[r].invoked) => req[r].ext.some
         /\ req[r].resp # MissingExtension

\* a public handler answered a request that carried a valid token, and no
\* Claims were attached
C9_Witness ==
  \E r \in Slots :
    /\ req[r].pc = "done" /\ req[r].invoked
    /\ req[r].route \in PublicRoutes
    /\ req[r].resp.status = 200
    /\ extract_token_from_headers(req[r].headers).ok
    /\ req[r].ext = NoClaims

\* the payload of the token a request carries
TokenOf(r) == extract_token_from_headers(req[r].headers).val[1].payload

\* C10: the admin flag of every authorization check is the one stored in the
\* token at issuance: a token issued while the user was admin passes the
\* admin-only and owner-or-admin checks after the stored is_admin became false,
\* and no request reads the stored role.
C10_Snapshot ==
  \A r \in Slots :
    (req[r].route \in ProtectedRoutes /\ req[r].invoked) =>
      /\ req[r].ext.claims.is_admin = TokenOf(r).is_admin
      /\ (req[r].pc = "done" /\ req[r].route.handler \in UserHandlers) =>
           (req[r].resp.status = 403 <=> ~TokenOf(r).is_admin)
      /\ (req[r].pc = "done" /\ req[r].route.handler = "delete_post"
            /\ TokenOf(r).is_admin) => req[r].resp.status # 403

\* a user whose stored is_admin is now false deleted a user record with a
\* token issued before the change
C10_Witness ==
  \E r \in Slots :
    /\ req[r].pc = "done" /\ req[r].invoked
    /\ req[r].route.handler = "delete_user"
    /\ req[r].resp.status = 204
    /\ \E u \in users :
         /\ [fmt |-> "hyphenated", id |-> u.id] = TokenOf(r).sub
         /\ ~u.is_admin
         /\ TokenOf(r).is_admin

\* the status the claim gives to each kind of error
C11_Status ==
  [Unauthorized |-> 401, Forbidden |-> 403, BadRequest |-> 400,
   NotFound |-> 404, Conflict |-> 409, InternalServerError |-> 500,
   Database |-> 500]

\* the errors auth.rs and handlers.rs construct, and the database error that
\* `?` converts
C11_Errors ==
  { [kind |-> "Unauthorized", msg |-> m] :
      m \in {"Missing authorization header", "Invalid authorization header",
             "Invalid authorization format", "Invalid token",
             "Invalid credentials", "User not found"} }
  \cup { [kind |-> "Forbidden", msg |-> m] :
      m \in {"Admin access required", "You can only delete your own posts"} }
  \cup { [kind |-> "BadRequest", msg |-> m] :
      m \in {"Invalid user ID", "Invalid post ID", "Failed to create user",
             "Database error: 23503", "Failed to create post",
             "Failed to create comment"} }
  \cup { [kind |-> "NotFound", msg |-> m] :
      m \in {"User not found", "Post not found", "Post or like not found"} }
  \cup { [kind |-> "Conflict", msg |-> m] : m \in {"Post already liked"} }
  \cup { [kind |-> "InternalServerError", msg |-> m] :
      m \in {"Task join error", "Failed to hash password",
             "Failed to verify password", "Failed to create token",
             "Database connection timeout"} }
  \cup { [kind |-> "Database", msg |-> m] : m \in {"RowNotFound", "PoolTimedOut"} }

\* the message of the response: the error's own, and for a database error
\* the fixed text of error.rs:37
C11_Message(e) ==
  IF e.kind = "Database" THEN "Internal server error" ELSE e.msg

C11_Rendered(e) ==
  [status |-> C11_Status[e.kind], body |-> [detail |-> C11_Message(e)]]

\* the request in slot r has ended with an AppError: the gate refused it, or
\* its handler body returned a failure (an extractor's rejection is axum's
\* own response, not an AppError)
C11_EndedWithError(r) ==
  /\ req[r].pc = "done"
  /\ req[r].resp.status >= 400
  /\ \/ req[r].invoked
     \/ req[r].route.protected /\ req[r].ext = NoClaims

\* the kind of the error the request in slot r ended with, told from the
\* message and, for the one message two kinds share, from the handler
C11_KindOf(r) ==
  LET d == req[r].resp.body.detail
  IN IF d = "User not found"
     THEN (IF req[r].route.handler = "me" THEN "Unauthorized" ELSE "NotFound")
     ELSE (CHOOSE e \in C11_Errors : C11_Message(e) = d).kind

\* C11: every error a request ends with is rendered with the one status of its
\* kind (Unauthorized 401, Forbidden 403, BadRequest 400, NotFound 404,
\* Conflict 409, internal and database errors 500) and with a body that is an
\* object with the single field detail holding the message.
C11_ErrorMap ==
  /\ \A e \in C11_Errors : into_response(e) = C11_Rendered(e)
  /\ \A r \in Slots :
       C11_EndedWithError(r) =>
         /\ DOMAIN req[r].resp = {"status", "body"}
         /\ DOMAIN req[r].resp.body = {"detail"}
         /\ \E e \in C11_Errors : req[r].resp = C11_Rendered(e)
         /\ req[r].resp.status = C11_Status[C11_KindOf(r)]

\* a second like of the same post ended with Conflict: 409 and the message
C11_Witness ==
  \E r \in Slots :
    /\ C11_EndedWithError(r)
    /\ req[r].route.handler = "like_post"
    /\ req[r].resp = [status |-> 409, body |-> [detail |-> "Post already liked"]]

\* what the gate makes of a request, from the request's headers, the
\* configuration and the clock value alone
C12_Outcome(headers, config, t) ==
  LET token == extract_token_from_headers(headers)
  IN IF ~token.ok
     THEN [pc |-> "done", ext |-> NoClaims, resp |-> into_response(token.err)]
     ELSE IF ~decode_token(token.val, config.jwt_secret, t).ok
     THEN [pc |-> "done", ext |-> NoClaims,
           resp |-> into_response(decode_token(token.val, config.jwt_secret, t).err)]
     ELSE [pc |-> "handler",
           ext |-> SomeClaims(decode_token(token.val, config.jwt_secret, t).val),
           resp |-> NoResp]

\* the request in slot q is in flight
C12_InFlight(q) == req[q].pc \notin {"idle", "done"}

C12_Step ==
  /\ app_state' = app_state /\ mw_state' = mw_state
  /\ \A r \in Slots :
       (Accepts(r) /\ req'[r].route.protected) =>
         /\ [pc |-> req'[r].pc, ext |-> req'[r].ext, resp |-> req'[r].resp]
              = C12_Outcome(req'[r].headers, mw_state, now')
         /\ UNCHANGED <<users, posts, comments, likes, next_id, issued>>
         /\ \A q \in Slots : C12_InFlight(q) => req'[q] = req[q]
  /\ \A q \in Slots :
       C12_InFlight(q) =>
         /\ req'[q].ext = req[q].ext
         /\ req'[q].headers = req[q].headers

\* the configuration the service started with
C12_Config ==
  /\ app_state.auth_config \in AuthConfigs
  /\ app_state.auth_config.jwt_expire_minutes = MaxLife
  /\ mw_state = app_state.auth_config

\* C12: under any interleaving of requests the gate's outcome and the Claims
\* it attaches are a function of the request's own headers, the auth
\* configuration and the clock; the gate's step changes no table, no issued
\* token and no other request in flight, no step of another request changes
\* the Claims attached to a request, and the auth configuration stays the one
\* set at startup.
C12_Independent == [](C12_Config) /\ [][C12_Step]_vars

\* a token verified and its Claims attached while another request, which has
\* inserted a user record, is suspended in its handler
C12_Witness ==
  \E r \in Slots, q \in Slots :
    /\ r # q
    /\ req[q].pc = "create_user_get"
    /\ users # InitUsers
    /\ req[r].pc = "handler" /\ req[r].ext.some
    /\ ~req[r].ext.claims.is_admin

C13_Step ==
  \A r \in Slots :
    /\ (Accepts(r) /\ req'[r].route.protected) =>
         /\ req'[r].out = NoResp /\ ~req'[r].invoked
         /\ LET token == extract_token_from_headers(req'[r].headers)
            IN IF token.ok /\ decode_token(token.val, mw_state.jwt_secret, now').ok
               THEN req'[r].pc = "handler" /\ req'[r].resp = NoResp
               ELSE /\ req'[r].pc = "done"
                    /\ req'[r].resp.status = 401
                    /\ req'[r].resp =
                         IF ~token.ok THEN into_response(token.err)
                         ELSE into_response(
                                decode_token(token.val, mw_state.jwt_secret, now').err)
    /\ (C12_InFlight(r) /\ req[r].route.protected /\ req'[r] # req[r]) =>
         /\ served' = served
         /\ req[r].out = NoResp /\ req[r].resp = NoResp
         /\ req'[r].pc # "handler"
         /\ req'[r].route = req[r].route /\ req'[r].headers = req[r].headers
         /\ IF req'[r].pc = "done"
            THEN req'[r].out # NoResp /\ req'[r].resp = req'[r].out
            ELSE req'[r].out = NoResp /\ req'[r].resp = NoResp
    /\ (req[r].pc = "done" /\ req'[r] # req[r]) =>
         \/ req'[r] = Idle
         \/ Accepts(r)

C13_Ended ==
  \A r \in Slots :
    /\ (req[r].pc = "handler") => ~req[r].invoked /\ req[r].out = NoResp
    /\ (req[r].route.protected /\ req[r].pc = "done") =>
         IF req[r].ext.some
         THEN req[r].out # NoResp /\ req[r].resp = req[r].out
         ELSE /\ req[r].out = NoResp /\ ~req[r].invoked
              /\ req[r].resp.status = 401
              /\ ~(/\ extract_token_from_headers(req[r].headers).ok
                   /\ decode_token(extract_token_from_headers(req[r].headers).val,
                                   mw_state.jwt_secret, now).ok)

\* C13: when extraction and verification succeed the gate invokes the next
\* stage once (the request enters its handler once and never again) and the
\* client receives the next stage's response, success or failure, as the next
\* stage returned it; when either fails the request ends in that same step with
\* the failure, nothing is attempted again, and that response is final.
C13_Passthrough == [](C13_Ended) /\ [][C13_Step]_vars

\* the next stage failed with Forbidden and the client received exactly that
C13_Witness ==
  \E r \in Slots :
    /\ req[r].pc = "done" /\ req[r].route.protected /\ req[r].ext.some
    /\ req[r].invoked
    /\ req[r].out = into_response(Forbidden("You can only delete your own posts"))
    /\ req[r].resp = req[r].out

\* the request in slot q is a delete_post that has just answered No Content
\* for post id
C14_Deleted(q, id) ==
  /\ req[q].pc = "done" /\ req[q].route.handler = "delete_post"
  /\ req[q].tmp # NoArg
  /\ req[q].tmp.post_uuid = id
  /\ req[q].resp.status = 204

C14_Step ==
  \A r \in Slots, q \in Slots :
    (r # q /\ StepAt(r, "delete_post_exec")
       /\ C14_Deleted(q, req[r].tmp.post_uuid)) =>
      /\ req'[r].pc = "done"
      /\ req'[r].resp.status # 204
      /\ req'[r].resp = [status |-> 404, body |-> [detail |-> "Post not found"]]

\* C14: of several authorized delete_post requests for the same existing post
\* handled concurrently, at most one answers No Content and every other one
\* answers NotFound: a request that passed the owner check while the post
\* existed and reaches its delete after another request has answered No
\* Content for that post answers NotFound.
C14_OneDelete == [][C14_Step]_vars

\* the handlers that parse claims.sub
C15_SubHandlers ==
  {"me", "create_post", "delete_post", "create_comment", "like_post",
   "unlike_post"}

\* the request in slot r carries Claims that came from a token login issued
C15_Authenticated(r) ==
  /\ req[r].pc # "idle"
  /\ req[r].ext.some
  /\ extract_token_from_headers(req[r].headers).val \in issued

C15_Inv ==
  /\ \A tk \in issued :
       /\ Len(tk) = 1
       /\ tk[1].payload.sub.fmt = "hyphenated"
       /\ tk[1].payload.sub.id \in UserIds
       /\ parse_str(tk[1].payload.sub) = Ok(tk[1].payload.sub.id)
  /\ \A r \in Slots :
       C15_Authenticated(r) =>
         /\ req[r].ext.claims.sub = TokenOf(r).sub
         /\ parse_str(req[r].ext.claims.sub).ok
         /\ (req[r].pc = "done" /\ req[r].route.handler \in C15_SubHandlers) =>
              req[r].resp # [status |-> 400, body |-> [detail |-> "Invalid user ID"]]

C15_Issue ==
  /\ \A r \in Slots :
       (StepAt(r, "login_verify") /\ req'[r].resp.status = 200) =>
         LET token == req'[r].resp.body.accessToken
         IN /\ issued' = issued \cup {token}
            /\ token[1].payload.sub = [fmt |-> "hyphenated", id |-> req[r].tmp.id]
            /\ parse_str(token[1].payload.sub) = Ok(req[r].tmp.id)
  /\ (issued' # issued) =>
       \E r \in Slots : StepAt(r, "login_verify") /\ req'[r].resp.status = 200
  /\ \A r \in Slots :
       (StepAt(r, "handler") /\ req[r].route.handler = "login"
          /\ req'[r].pc = "login_verify") =>
         \E u \in users : u.id = req'[r].tmp.id /\ u.email = req'[r].arg.email

\* C15: every token login issues carries as sub the string form of the id of
\* the user record login read, so in every request authenticated with a token
\* this system issued the parse of claims.sub succeeds and no handler answers
\* BadRequest "Invalid user ID" for the caller's own identity.
C15_IssuedSub == [](C15_Inv) /\ [][C15_Issue]_vars

\* me answered 200 to a token that login issued after the clock had advanced
C15_Witness ==
  \E r \in Slots :
    /\ C15_Authenticated(r)
    /\ req[r].pc = "done" /\ req[r].invoked
    /\ req[r].route.handler = "me"
    /\ req[r].resp.status = 200
    /\ TokenOf(r).exp > T0 + 60 * MaxLife
    /\ parse_str(req[r].ext.claims.sub).ok

\* this step is the body of handler h in slot r, called with a post id that
\* parses and Claims whose sub parses
C16_Call(r, h) ==
  /\ StepAt(r, "handler") /\ req[r].route.handler = h
  /\ req[r].ext.some /\ parse_str(req[r].ext.claims.sub).ok
  /\ req'[r].invoked /\ parse_str(req'[r].arg).ok

\* the like the call in slot r is about
C16_Like(r) ==
  [user_id |-> parse_str(req[r].ext.claims.sub).val,
   post_id |-> parse_str(req'[r].arg).val]

C16_Step ==
  /\ \A r \in Slots :
       C16_Call(r, "like_post") =>
         LET l == C16_Like(r)
             stored == /\ \E u \in users : u.id = l.user_id
                       /\ \E p \in posts : p.id = l.post_id
         IN /\ req'[r].pc = "done"
            /\ (req'[r].resp.status = 204) <=> (l \notin likes /\ stored)
            /\ (l \in likes) =>
                 req'[r].resp = [status |-> 409,
                                 body |-> [detail |-> "Post already liked"]]
            /\ likes' = IF req'[r].resp.status = 204 THEN likes \cup {l} ELSE likes
  /\ \A r \in Slots :
       C16_Call(r, "unlike_post") =>
         LET l == C16_Like(r)
         IN /\ req'[r].pc = "done"
            /\ (req'[r].resp.status = 204) <=> (l \in likes)
            /\ (l \notin likes) =>
                 req'[r].resp = [status |-> 404,
                                 body |-> [detail |-> "Post or like not found"]]
            /\ likes' = likes \ {l}
  /\ \A l \in likes' \ likes :
       \E r \in Slots :
         /\ C16_Call(r, "like_post") /\ C16_Like(r) = l
         /\ req'[r].resp.status = 204
  /\ \A l \in likes \ likes' :
       \/ \E r \in Slots :
            /\ C16_Call(r, "unlike_post") /\ C16_Like(r) = l
            /\ req'[r].resp.status = 204
       \/ \A p \in posts' : p.id # l.post_id
       \/ \A u \in users' : u.id # l.user_id

C16_Stored ==
  /\ \A l \in likes :
       /\ \E u \in users : u.id = l.user_id
       /\ \E p \in posts : p.id = l.post_id
  /\ \A u \in UserIds, p \in PostIds :
       Cardinality({l \in likes : l.user_id = u /\ l.post_id = p}) <= 1

====
